---- MODULE Spec2Model ----
(***************************************************************************)
(* Model of the App component of the face mask detection dashboard         *)
(* (src/Face Mask Detection System/src/App.tsx): the React state of the    *)
(* component, the interval timers its scheduler effect installs, and one   *)
(* action per event handler / timer callback.  A handler's action includes *)
(* the re-render it triggers and the scheduler effect's cleanup and setup  *)
(* that the re-render runs when a dependency changed: React renders the    *)
(* state change of a click or slider event, and flushes its effects,       *)
(* before the event's task ends, so no timer callback runs in between.     *)
(*                                                                         *)
(* Time is discrete.  One unit is half a tick interval; the clock `now`    *)
(* stands for Date.now().  Interval timers are ideal: a timer due at `now` *)
(* fires before the clock moves on, and never early.                       *)
(*                                                                         *)
(* complianceRate is a JavaScript number; it is modelled by the exact      *)
(* fraction [num, den] in lowest terms (den = 1 for zero).                 *)
(*                                                                         *)
(* Of a Detection only id, hasMask and timestamp are kept: x, y, width,    *)
(* height and confidence are random reals that only drawDetections and the *)
(* markup read.  The camera handling (startCamera, stopCamera) touches no  *)
(* state the component logic reads and is left out.                        *)
(***************************************************************************)
EXTENDS Integers, Sequences, FiniteSets, TLC

\* ------------------------------------------------------------ bounds
\* The clock stops at MaxTime (guard of Advance); six ticks fit in 12 units.
MaxTime == 12
\* Size of the pool of interval-timer ids.
MaxTimers == 2

\* ------------------------------------------------- program constants
\* setInterval(..., 1000): the tick interval, in clock units (unit = 500 ms).
Interval == 2
\* [alertMessage, ...prev.slice(0, 4)]: number of entries kept from the old log.
KeptAlerts == 4
\* useState(0.7): initial sensitivity, in tenths.
InitialSensitivity == 7
\* <input type="range" min="0.5" max="1" step="0.1">, in tenths.
MinSensitivity == 5
MaxSensitivity == 10

SensitivityValues == MinSensitivity..MaxSensitivity
TimerIds == 1..MaxTimers
\* timers[id] for an id with no interval installed, and the value of
\* effectInterval when the scheduler effect holds no cleanup.
Cleared == -1
NoInterval == 0

VARIABLES
    isDetecting,     \* useState(false)
    detections,      \* useState<Detection[]>([])
    stats,           \* useState<Stats>({0, 0, 0, 0})
    alerts,          \* useState<string[]>([])
    sensitivity,     \* useState(0.7), in tenths
    showSettings,    \* useState(false)
    timers,          \* browser interval timers: id -> instant of next firing, or Cleared
    effectInterval,  \* `interval` captured by the scheduler effect's cleanup closure
    now,             \* Date.now()
    lastOp,          \* history: the handler that ran last
    batchLog         \* history: batches yielded by the ticks since the last reset

vars == <<isDetecting, detections, stats, alerts, sensitivity, showSettings,
          timers, effectInterval, now, lastOp, batchLog>>

\* ------------------------------------------------------------ helpers
Min(a, b) == IF a < b THEN a ELSE b

RECURSIVE Gcd(_, _)
Gcd(a, b) == IF b = 0 THEN a ELSE Gcd(b, a % b)

\* The number a / b (b > 0, a >= 0) as a fraction in lowest terms.
Fraction(a, b) == LET g == Gcd(a, b) IN [num |-> a \div g, den |-> b \div g]

ZeroRate == [num |-> 0, den |-> 1]

\* currentDetections.filter(pred).length
RECURSIVE CountIf(_, _)
CountIf(s, wantMask) ==
    IF s = <<>> THEN 0
    ELSE (IF Head(s).hasMask = wantMask THEN 1 ELSE 0) + CountIf(Tail(s), wantMask)

\* prev.slice(0, n)
Slice(s, n) == SubSeq(s, 1, Min(n, Len(s)))

\* new Date().toLocaleTimeString(): the wall clock truncated to whole seconds
\* (one second is Interval clock units; the wrap at midnight is beyond MaxTime).
LocaleTimeString(t) == t \div Interval

\* `Alert: No mask detected at ${new Date().toLocaleTimeString()}`
AlertMessage(t) == [text |-> "Alert: No mask detected at", time |-> LocaleTimeString(t)]

\* The detection object built by simulateDetection.
NewDetection(t, hasMask) == [id |-> t, hasMask |-> hasMask, timestamp |-> t]

ZeroStats ==
    [totalDetections |-> 0, maskedCount |-> 0, unmaskedCount |-> 0,
     complianceRate |-> ZeroRate]

\* ------------------------------------------------ state updaters
\* setStats(prev => ...) of updateStats, with a stale complianceRate.
updateStats_StaleRate(prev, currentDetections) ==
    LET newTotal == prev.totalDetections + Len(currentDetections)
        newMasked == prev.maskedCount + CountIf(currentDetections, TRUE)
        newUnmasked == prev.unmaskedCount + CountIf(currentDetections, FALSE)
    IN  [totalDetections |-> newTotal,
         maskedCount |-> newMasked,
         unmaskedCount |-> newUnmasked,
         complianceRate |-> IF prev.totalDetections > 0
                            THEN Fraction(prev.maskedCount * 100, prev.totalDetections)
                            ELSE ZeroRate]

\* updateStats counting every detection as masked.
updateStats_AllMasked(prev, currentDetections) ==
    LET newTotal == prev.totalDetections + Len(currentDetections)
        newMasked == prev.maskedCount + Len(currentDetections)
        newUnmasked == prev.unmaskedCount + CountIf(currentDetections, FALSE)
    IN  [totalDetections |-> newTotal,
         maskedCount |-> newMasked,
         unmaskedCount |-> newUnmasked,
         complianceRate |-> IF newTotal > 0
                            THEN Fraction(newMasked * 100, newTotal)
                            ELSE ZeroRate]

\* updateStats with the rate taken over the unmasked count.
updateStats_UnmaskedRate(prev, currentDetections) ==
    LET newTotal == prev.totalDetections + Len(currentDetections)
        newMasked == prev.maskedCount + CountIf(currentDetections, TRUE)
        newUnmasked == prev.unmaskedCount + CountIf(currentDetections, FALSE)
    IN  [totalDetections |-> newTotal,
         maskedCount |-> newMasked,
         unmaskedCount |-> newUnmasked,
         complianceRate |-> IF newTotal > 0
                            THEN Fraction(newUnmasked * 100, newTotal)
                            ELSE ZeroRate]

\* The updater updateStats passes to setStats.
updateStats(prev, currentDetections) ==
    LET newTotal == prev.totalDetections + Len(currentDetections)
        newMasked == prev.maskedCount + CountIf(currentDetections, TRUE)
        newUnmasked == prev.unmaskedCount + CountIf(currentDetections, FALSE)
    IN  [totalDetections |-> newTotal,
         maskedCount |-> newMasked,
         unmaskedCount |-> newUnmasked,
         complianceRate |-> IF newTotal > 0
                            THEN Fraction(newMasked * 100, newTotal)
                            ELSE ZeroRate]

\* The alert updater appending at the back instead of the front.
addAlert_Append(prev, alertMessage) == Slice(prev, KeptAlerts) \o <<alertMessage>>

\* The alert updater keeping one entry too many.
addAlert_KeepAll(prev, alertMessage) == <<alertMessage>> \o Slice(prev, KeptAlerts + 1)

\* setAlerts(prev => [alertMessage, ...prev.slice(0, 4)])
addAlert(prev, alertMessage) == <<alertMessage>> \o Slice(prev, KeptAlerts)

\* The alert branch of simulateDetection without its hasMask test.
recordAlert_Always(prev, detection, t) == addAlert(prev, AlertMessage(t))

\* if (!detection.hasMask) { setAlerts(...) }
recordAlert(prev, detection, t) ==
    IF ~detection.hasMask THEN addAlert(prev, AlertMessage(t)) ELSE prev

\* ------------------------------------------------ scheduler effect
\* The effect's cleanup without its clearInterval.
Cleanup_NoClear(t, h) == t

\* return () => clearInterval(interval), run for the cleanup the effect holds.
Cleanup(t, h) == IF h # NoInterval THEN [t EXCEPT ![h] = Cleared] ELSE t

\* Dependency list of the scheduler effect without sensitivity.
DepsChanged_DetectingOnly(newDetecting, newSensitivity) == newDetecting # isDetecting

\* [isDetecting, sensitivity]: the effect re-runs when either differs from the
\* value of the previous render.
DepsChanged(newDetecting, newSensitivity) ==
    newDetecting # isDetecting \/ newSensitivity # sensitivity

\* The re-render after a state change: when a dependency changed, the previous
\* effect's cleanup runs and then the effect body.
SchedulerEffect(newDetecting, newSensitivity) ==
    IF DepsChanged(newDetecting, newSensitivity)
    THEN LET cleaned == Cleanup(timers, effectInterval)
         IN  IF newDetecting
             THEN \E id \in TimerIds :
                    /\ cleaned[id] = Cleared
                    /\ \A other \in TimerIds : cleaned[other] = Cleared => id <= other
                    /\ timers' = [cleaned EXCEPT ![id] = now + Interval]
                    /\ effectInterval' = id
             ELSE /\ timers' = cleaned
                  /\ effectInterval' = NoInterval
    ELSE UNCHANGED <<timers, effectInterval>>

\* ------------------------------------------------------------ Init
Init ==
    /\ isDetecting = FALSE
    /\ detections = <<>>
    /\ stats = ZeroStats
    /\ alerts = <<>>
    /\ sensitivity = InitialSensitivity
    /\ showSettings = FALSE
    /\ timers = [id \in TimerIds |-> Cleared]
    /\ effectInterval = NoInterval
    /\ now = 0
    /\ lastOp = "init"
    /\ batchLog = <<>>

\* ------------------------------------------------------------ actions
\* onClick of the start/stop button.
toggleDetection ==
    /\ isDetecting' = ~isDetecting
    /\ SchedulerEffect(~isDetecting, sensitivity)
    /\ lastOp' = "toggle"
    /\ UNCHANGED <<detections, stats, alerts, sensitivity, showSettings, now, batchLog>>

\* resetStats leaving the alert log alone.
resetStats_KeepAlerts ==
    /\ stats' = ZeroStats
    /\ lastOp' = "reset"
    /\ batchLog' = <<>>
    /\ UNCHANGED <<isDetecting, detections, alerts, sensitivity, showSettings,
                   timers, effectInterval, now>>

\* onClick of "Reset Statistics".
resetStats ==
    /\ stats' = ZeroStats
    /\ alerts' = <<>>
    /\ lastOp' = "reset"
    /\ batchLog' = <<>>
    /\ UNCHANGED <<isDetecting, detections, sensitivity, showSettings,
                   timers, effectInterval, now>>

\* onClick of the settings button.
toggleSettings ==
    /\ showSettings' = ~showSettings
    /\ lastOp' = "settings"
    /\ UNCHANGED <<isDetecting, detections, stats, alerts, sensitivity,
                   timers, effectInterval, now, batchLog>>

\* onChange of the sensitivity slider, which is rendered only in the settings panel.
setSensitivity(v) ==
    /\ showSettings
    /\ v # sensitivity
    /\ sensitivity' = v
    /\ SchedulerEffect(isDetecting, v)
    /\ lastOp' = "sensitivity"
    /\ UNCHANGED <<isDetecting, detections, stats, alerts, showSettings, now, batchLog>>

\* simulateDetection, as called by the interval callback: hasPersonPresent and
\* hasMask are the outcomes of the two Math.random() tests.
simulateDetection(hasPersonPresent, hasMask) ==
    IF ~hasPersonPresent
    THEN /\ detections' = <<>>
         /\ lastOp' = "tick_empty"
         /\ batchLog' = Append(batchLog, "empty")
         /\ UNCHANGED <<stats, alerts>>
    ELSE LET detection == NewDetection(now, hasMask)
             newDetections == <<detection>>
         IN  /\ alerts' = recordAlert(alerts, detection, now)
             /\ detections' = newDetections
             /\ stats' = updateStats(stats, newDetections)
             /\ lastOp' = IF hasMask THEN "tick_masked" ELSE "tick_unmasked"
             /\ batchLog' = Append(batchLog, IF hasMask THEN "masked" ELSE "unmasked")

\* An installed interval timer comes due: its callback runs and it is re-armed.
TimerFires(id) ==
    /\ timers[id] = now
    /\ timers' = [timers EXCEPT ![id] = now + Interval]
    /\ \E hasPersonPresent \in BOOLEAN :
         \E hasMask \in (IF hasPersonPresent THEN BOOLEAN ELSE {FALSE}) :
            simulateDetection(hasPersonPresent, hasMask)
    /\ UNCHANGED <<isDetecting, sensitivity, showSettings, effectInterval, now>>

\* The clock moves on by one unit, once no timer is due.
Advance ==
    /\ now < MaxTime
    /\ \A id \in TimerIds : timers[id] # now
    /\ now' = now + 1
    /\ UNCHANGED <<isDetecting, detections, stats, alerts, sensitivity, showSettings,
                   timers, effectInterval, lastOp, batchLog>>

Next ==
    \/ toggleDetection
    \/ resetStats
    \/ toggleSettings
    \/ \E v \in SensitivityValues : setSensitivity(v)
    \/ \E id \in TimerIds : TimerFires(id)
    \/ Advance

Spec == Init /\ [][Next]_vars

\* ------------------------------------------------------------ properties
\* Ids of the interval timers currently installed.
PendingTimers == {id \in TimerIds : timers[id] # Cleared}

\* The instant at which the scheduler effect's interval fires next.
NextDue == IF effectInterval \in TimerIds THEN timers[effectInterval] ELSE Cleared

\* The step runs simulateDetection (every tick appends its batch to batchLog).
TickStep == Len(batchLog') = Len(batchLog) + 1

\* Number of entries of the batch log equal to kind.
RECURSIVE CountKind(_, _)
CountKind(log, kind) ==
    IF log = <<>> THEN 0
    ELSE (IF Head(log) = kind THEN 1 ELSE 0) + CountKind(Tail(log), kind)

RateInRange ==
    /\ stats.complianceRate.num >= 0
    /\ stats.complianceRate.den > 0
    /\ stats.complianceRate.num <= 100 * stats.complianceRate.den

\* C1: in every reachable state maskedCount + unmaskedCount = totalDetections.
C1_CountsAddUp == stats.maskedCount + stats.unmaskedCount = stats.totalDetections

C1_Witness ==
    /\ stats.maskedCount > 0
    /\ stats.unmaskedCount > 0
    /\ lastOp \in {"tick_masked", "tick_unmasked"}

\* C2 as stated: complianceRate lies in [0,100] and is 0 exactly when
\* totalDetections is 0.
C2_ZeroIffNoDetections ==
    /\ RateInRange
    /\ (stats.complianceRate.num = 0 <=> stats.totalDetections = 0)

\* C2 amended: complianceRate lies in [0,100] and is 0 exactly when maskedCount
\* is 0 (in particular whenever totalDetections is 0).
C2_ZeroIffNoMasked ==
    /\ RateInRange
    /\ (stats.complianceRate.num = 0 <=> stats.maskedCount = 0)
    /\ (stats.totalDetections = 0 => stats.complianceRate.num = 0)

C2_Witness ==
    /\ stats.totalDetections > 0
    /\ stats.maskedCount = 0
    /\ stats.complianceRate.num = 0

\* C3: while isDetecting is false no interval timer is pending, and every tick
\* (run of simulateDetection) happens in a state where isDetecting is true.
C3_NoTickWhileStopped ==
    /\ [](~isDetecting => PendingTimers = {})
    /\ [][TickStep => isDetecting]_vars

\* Detection was stopped one unit after a tick, half way to the next one.
C3_Witness ==
    /\ ~isDetecting
    /\ lastOp = "toggle"
    /\ detections # <<>>
    /\ detections[1].timestamp + 1 = now

\* C4: a step on which isDetecting goes from true to false leaves detections empty.
C4_ClearedOnStop == [][(isDetecting /\ ~isDetecting') => detections' = <<>>]_vars

\* C5 as stated: a sensitivity change while detection is active leaves the
\* instant of the next tick where it was.
C5_CadenceKept ==
    [][(isDetecting /\ sensitivity' # sensitivity) => NextDue' = NextDue]_vars

\* C5 amended: a sensitivity change while detection is active cancels the
\* pending interval and installs a new one, so that exactly one timer is
\* pending and the next tick fires one full interval after the change, never
\* earlier than it would have fired without the change.
C5_RestartsInterval ==
    [][(isDetecting /\ sensitivity' # sensitivity) =>
          /\ isDetecting'
          /\ PendingTimers' = {effectInterval'}
          /\ NextDue' = now + Interval
          /\ NextDue' >= NextDue]_vars

\* The sensitivity was changed one unit after a tick: the tick that was due
\* one unit later is now due two units later.
C5_Witness ==
    /\ isDetecting
    /\ lastOp = "sensitivity"
    /\ detections # <<>>
    /\ detections[1].timestamp + 1 = now
    /\ NextDue = now + Interval

\* C6: a tick yielding an unmasked detection puts one new entry at the front
\* of the alert log with the previous entries in their order behind it, the
\* last one dropped when the log held 5; the log never holds more than 5.
C6_AlertPrepended ==
    /\ [](Len(alerts) <= 5)
    /\ [][(TickStep /\ lastOp' = "tick_unmasked") =>
            /\ Len(alerts') = Min(Len(alerts) + 1, 5)
            /\ alerts'[1] = AlertMessage(now)
            /\ \A i \in 1..Len(alerts) : alerts'[1] # alerts[i]
            /\ \A i \in 2..Len(alerts') : alerts'[i] = alerts[i - 1]]_vars

\* A sixth unmasked detection since the last reset has just been logged.
C6_Witness ==
    /\ lastOp = "tick_unmasked"
    /\ Len(alerts) = 5
    /\ CountKind(batchLog, "unmasked") = 6

\* C7: stats and the alert log change only on a tick that yields a detection
\* and on reset; an empty tick, stop, start, a sensitivity change (and the
\* settings toggle) leave both unchanged, and a masked tick leaves the alert
\* log unchanged.
C7_Frame ==
    [][/\ (stats' # stats \/ alerts' # alerts) =>
              (now' = now /\ lastOp' \in {"tick_masked", "tick_unmasked", "reset"})
       /\ (now' = now /\ lastOp' \in {"tick_empty", "toggle", "sensitivity", "settings"}) =>
              (stats' = stats /\ alerts' = alerts)
       /\ (now' = now /\ lastOp' = "tick_masked") => alerts' = alerts]_vars

\* A masked tick has just left a non-empty alert log as it was.
C7_Witness ==
    /\ lastOp = "tick_masked"
    /\ detections # <<>>
    /\ detections[1].timestamp = now
    /\ alerts # <<>>
    /\ stats.unmaskedCount > 0

\* C8: after reset, whatever the state before it, the four stats fields are 0
\* and the alert log is empty.
C8_ResetZeroes ==
    lastOp = "reset" =>
        /\ stats.totalDetections = 0
        /\ stats.maskedCount = 0
        /\ stats.unmaskedCount = 0
        /\ stats.complianceRate.num = 0
        /\ alerts = <<>>

\* Reset while detection is running and an unmasked detection is on display.
C8_Witness ==
    /\ lastOp = "reset"
    /\ isDetecting
    /\ detections # <<>>
    /\ ~detections[1].hasMask
    /\ stats.totalDetections = 0

\* C9: the counters equal the numbers of ticks since the last reset that
\* yielded a detection, a masked one and an unmasked one; complianceRate is
\* maskedCount / totalDetections * 100; and the batches [masked], [],
\* [unmasked] give total 2, masked 1, unmasked 1, compliance 50, one alert.
C9_FoldOfBatches ==
    /\ stats.totalDetections = Len(batchLog) - CountKind(batchLog, "empty")
    /\ stats.maskedCount = CountKind(batchLog, "masked")
    /\ stats.unmaskedCount = CountKind(batchLog, "unmasked")
    /\ stats.totalDetections > 0 =>
          stats.complianceRate.num * stats.totalDetections
              = stats.maskedCount * 100 * stats.complianceRate.den
    /\ batchLog = <<"masked", "empty", "unmasked">> =>
          /\ stats.totalDetections = 2
          /\ stats.maskedCount = 1
          /\ stats.unmaskedCount = 1
          /\ stats.complianceRate = [num |-> 50, den |-> 1]
          /\ Len(alerts) = 1

C9_Witness == batchLog = <<"masked", "empty", "unmasked">>

\* C10: the alert log holds min(5, unmaskedCount) entries.
C10_AlertCount == Len(alerts) = Min(5, stats.unmaskedCount)

C10_Witness ==
    /\ stats.unmaskedCount = 6
    /\ Len(alerts) = 5

====
